---------------------------- MODULE Spec2Model ----------------------------
(***************************************************************************)
(* Magazine-subscription backend (research_assignment/main.py).            *)
(*                                                                         *)
(* The store is four tables (models.py): users, magazines, plans and       *)
(* subscriptions.  Every HTTP handler of main.py is one action, except     *)
(* register and create_magazine, whose pre-check query and commit are two  *)
(* steps of a worker so that concurrent requests can interleave between    *)
(* them.  The response a handler returns is kept in `response` until the   *)
(* request's session is closed (get_db), which is the next step.           *)
(*                                                                         *)
(* Not under src/ and modelled from the specification: the auth helpers    *)
(* (salted hash, token) and the database engine (primary keys count up     *)
(* from 1; foreign keys are not enforced by the storage layer).            *)
(*                                                                         *)
(* Spec is the whole application.  SpecAuth, SpecCatalog and               *)
(* SpecSubscriptions run the same actions on the routes and request values *)
(* their properties are about.                                             *)
(***************************************************************************)
EXTENDS Integers, Sequences, FiniteSets, TLC

VARIABLES
    users,          \* rows of table "users"
    magazines,      \* rows of table "magazines"
    plans,          \* rows of table "plans"
    subscriptions,  \* rows of table "subscriptions"
    pc,             \* per worker: where its two-step handler stands
    req,            \* per worker: the request body it is handling
    response        \* the response of the handler that just ran

vars == <<users, magazines, plans, subscriptions, pc, req, response>>

---------------------------------------------------------------------------
(* Bounds of the model. *)

MaxPlans == 2
MaxSubs == 2

Procs == {"w1", "w2"}
Usernames == {"alice", "bob"}
Emails == {"a@x.io", "b@x.io"}
Passwords == {"pw1", "pw2"}
Salts == {"s1", "s2"}
Titles == {"Tech Monthly", "Garden Weekly"}
Descriptions == {"about"}
PlanNames == {"Monthly Subscription"}
Prices == {10}

UserIds == 1..2
PlanIds == 1..2
MagazineIds == 1..2
SubIds == 1..MaxSubs

(* Python's None and a present value of an optional field. *)
None == <<>>
Some(v) == <<v>>
Opt(S) == {None} \cup {Some(v) : v \in S}

---------------------------------------------------------------------------
(* Request schemas (schemas.py). *)

UserCreate == [username : Usernames, email : Emails, password : Passwords]
UserLogin == [username : Usernames, password : Passwords]
PasswordReset == [username : Usernames, new_password : Passwords]
MagazineCreate == [title : Titles, description : Descriptions]
PlanCreate == [magazine_id : MagazineIds, name : PlanNames, price : Prices,
               discount : {None}]
SubscriptionCreate == [user_id : UserIds, plan_id : PlanIds, active : Opt(BOOLEAN)]
SubscriptionUpdate == [plan_id : Opt(PlanIds), active : Opt(BOOLEAN)]

(* the default of active inverted *)
SubscriptionCreate_active_off(a) == IF a = None THEN FALSE ELSE a[1]

(* SubscriptionCreate.active: bool = True *)
SubscriptionCreate_active(a) == IF a = None THEN TRUE ELSE a[1]

(* PlanCreate.discount: int = 0 *)
PlanCreate_discount(d) == IF d = None THEN 0 ELSE d[1]

---------------------------------------------------------------------------
(* The store. *)

HTTP_200_OK == 200
HTTP_400_BAD_REQUEST == 400
HTTP_401_UNAUTHORIZED == 401
HTTP_403_FORBIDDEN == 403
HTTP_404_NOT_FOUND == 404
HTTP_500_INTERNAL_SERVER_ERROR == 500

Max(S) == CHOOSE m \in S : \A x \in S : x <= m

(* Integer primary key of a new row: auto-incrementing from 1. *)
NextId(rows) == IF rows = {} THEN 1 ELSE Max({r.id : r \in rows}) + 1

(* db.query(T).filter(T.col == v).first(): a row or None. *)
First(rows) == IF rows = {} THEN None
               ELSE Some(CHOOSE r \in rows : \A x \in rows : r.id <= x.id)

(* users.username without its unique index *)
User_unique_violation_email_only(row) == \E u \in users : u.email = row.email

(* users.username and users.email carry unique indexes: a commit that     *)
(* would duplicate either is rejected by the store.                       *)
User_unique_violation(row) ==
    \E u \in users : u.username = row.username \/ u.email = row.email

(* subscriptions.user_id and subscriptions.plan_id are foreign-key columns  *)
(* that the storage layer does not enforce: a commit is not rejected for   *)
(* a reference to a missing row.                                           *)
store_enforces_foreign_keys == FALSE
Subscription_fk_violation(row) ==
    /\ store_enforces_foreign_keys
    /\ \/ ~\E u \in users : u.id = row.user_id
       \/ ~\E pl \in plans : pl.id = row.plan_id

(* auth.get_password_hash / auth.verify_password: a salted one-way hash;  *)
(* a password verifies against a hash exactly when hashing it with the    *)
(* hash's salt gives the hash's digest.                                   *)
Digest(salt, password) == <<"H", salt, password>>
get_password_hash(password, salt) ==
    [salt |-> salt, digest |-> Digest(salt, password)]
verify_password(password, hashed) == Digest(hashed.salt, password) = hashed.digest

(* auth.create_access_token(data={"sub": username}) *)
create_access_token(sub) == <<"token", sub>>

(* Rows of the four tables (models.py). *)
User == [id : Nat, username : Usernames, email : Emails,
         hashed_password : {get_password_hash(p, s) : p \in Passwords, s \in Salts}]
Magazine == [id : Nat, title : Titles, description : Descriptions]
Plan == [id : Nat, magazine_id : Nat, name : PlanNames, price : Int, discount : Int]
Subscription == [id : Nat, user_id : Nat, plan_id : Nat, active : BOOLEAN]

NoRequest == [kind |-> "none"]
NoResponse == [op |-> "none"]
Ready == response = NoResponse

Reply(op, args, code, detail, body) ==
    [op |-> op, args |-> args, status |-> code, detail |-> detail, body |-> body]

Init ==
    /\ users = {}
    /\ magazines = {}
    /\ plans = {}
    /\ subscriptions = {}
    /\ pc = [p \in Procs |-> "idle"]
    /\ req = [p \in Procs |-> NoRequest]
    /\ response = NoResponse

TypeOK ==
    /\ users \subseteq User
    /\ magazines \subseteq Magazine
    /\ plans \subseteq Plan
    /\ subscriptions \subseteq Subscription
    /\ pc \in [Procs -> {"idle", "register_commit", "create_magazine_commit"}]
    /\ \A p \in Procs :
          /\ pc[p] = "idle" <=> req[p] = NoRequest
          /\ pc[p] = "register_commit" => req[p] \in UserCreate
          /\ pc[p] = "create_magazine_commit" => req[p] \in MagazineCreate

(* get_db: the session is closed once the response is out. *)
get_db_close ==
    /\ response # NoResponse
    /\ response' = NoResponse
    /\ UNCHANGED <<users, magazines, plans, subscriptions, pc, req>>

---------------------------------------------------------------------------
(* Registration and authentication. *)

(* the pre-check filtering on the wrong column *)
register_found_by_email(username) == First({u \in users : u.email = username})

register_found(username) == First({u \in users : u.username = username})

register_response(new_user) ==
    [username |-> new_user.username, email |-> new_user.email]

(* register, up to the pre-check: db.query(User).filter(username).first() *)
register_check(p, user) ==
    /\ Ready
    /\ pc[p] = "idle"
    /\ IF register_found(user.username) # None
       THEN /\ response' = Reply("register", user, HTTP_400_BAD_REQUEST,
                                 "Username already registered", None)
            /\ UNCHANGED <<pc, req>>
       ELSE /\ pc' = [pc EXCEPT ![p] = "register_commit"]
            /\ req' = [req EXCEPT ![p] = user]
            /\ UNCHANGED response
    /\ UNCHANGED <<users, magazines, plans, subscriptions>>

(* register, from get_password_hash to the return: add, commit, refresh *)
register_commit(p, salt) ==
    /\ Ready
    /\ pc[p] = "register_commit"
    /\ LET user == req[p]
           new_user == [id |-> NextId(users),
                        username |-> user.username,
                        email |-> user.email,
                        hashed_password |-> get_password_hash(user.password, salt)]
       IN IF User_unique_violation(new_user)
          THEN /\ response' = Reply("register", user, HTTP_500_INTERNAL_SERVER_ERROR,
                                    "IntegrityError", None)
               /\ UNCHANGED users
          ELSE /\ users' = users \cup {new_user}
               /\ response' = Reply("register", user, HTTP_200_OK, "",
                                    register_response(new_user))
    /\ pc' = [pc EXCEPT ![p] = "idle"]
    /\ req' = [req EXCEPT ![p] = NoRequest]
    /\ UNCHANGED <<magazines, plans, subscriptions>>

(* the password left unverified *)
login_rejected_unknown_only(db_user, password) == db_user = None

login_rejected(db_user, password) ==
    db_user = None \/ ~verify_password(password, db_user[1].hashed_password)

login_reply(rows, user) ==
    LET db_user == First({u \in rows : u.username = user.username})
    IN IF login_rejected(db_user, user.password)
       THEN Reply("login", user, HTTP_401_UNAUTHORIZED,
                  "Incorrect username or password", None)
       ELSE Reply("login", user, HTTP_200_OK, "",
                  [access_token |-> create_access_token(db_user[1].username),
                   token_type |-> "bearer"])

login(user) ==
    /\ Ready
    /\ response' = login_reply(users, user)
    /\ UNCHANGED <<users, magazines, plans, subscriptions, pc, req>>

(* the update written to every row *)
reset_password_rows_all(db_user, hashed) ==
    {[u EXCEPT !.hashed_password = hashed] : u \in users}

reset_password_rows(db_user, hashed) ==
    {IF u.id = db_user.id THEN [u EXCEPT !.hashed_password = hashed] ELSE u : u \in users}

reset_password(reset, salt) ==
    /\ Ready
    /\ LET db_user == First({u \in users : u.username = reset.username})
       IN IF db_user = None
          THEN /\ response' = Reply("reset_password", reset, HTTP_404_NOT_FOUND,
                                    "User not found", None)
               /\ UNCHANGED users
          ELSE /\ users' = reset_password_rows(db_user[1],
                                get_password_hash(reset.new_password, salt))
               /\ response' = Reply("reset_password", reset, HTTP_200_OK, "",
                                    [msg |-> "Password reset successful"])
    /\ UNCHANGED <<magazines, plans, subscriptions, pc, req>>

(* UserResponse: username and email of every user *)
get_users ==
    /\ Ready
    /\ response' = Reply("get_users", None, HTTP_200_OK, "",
                         {[username |-> u.username, email |-> u.email] : u \in users})
    /\ UNCHANGED <<users, magazines, plans, subscriptions, pc, req>>

NextAuth ==
    \/ \E p \in Procs, user \in UserCreate : register_check(p, user)
    \/ \E p \in Procs, salt \in Salts : register_commit(p, salt)
    \/ \E user \in UserLogin : login(user)
    \/ \E reset \in PasswordReset, salt \in Salts : reset_password(reset, salt)
    \/ get_users
    \/ get_db_close

SpecAuth == Init /\ [][NextAuth]_vars

---------------------------------------------------------------------------
(* Catalog: magazines and plans. *)

(* response_model=MagazineCreate *)
MagazineCreate_from_orm(m) == [title |-> m.title, description |-> m.description]

(* response_model=PlanCreate *)
PlanCreate_from_orm(pl) ==
    [magazine_id |-> pl.magazine_id, name |-> pl.name, price |-> pl.price,
     discount |-> pl.discount]

(* response_model=SubscriptionCreate *)
SubscriptionCreate_from_orm(s) ==
    [user_id |-> s.user_id, plan_id |-> s.plan_id, active |-> s.active]

list_magazines ==
    /\ Ready
    /\ response' = Reply("list_magazines", None, HTTP_200_OK, "", magazines)
    /\ UNCHANGED <<users, magazines, plans, subscriptions, pc, req>>

create_magazine_found(title) == First({m \in magazines : m.title = title})

(* create_magazine, up to the pre-check on the title *)
create_magazine_check(p, magazine) ==
    /\ Ready
    /\ pc[p] = "idle"
    /\ IF create_magazine_found(magazine.title) # None
       THEN /\ response' = Reply("create_magazine", magazine, HTTP_400_BAD_REQUEST,
                                 "Magazine with this title already exists", None)
            /\ UNCHANGED <<pc, req>>
       ELSE /\ pc' = [pc EXCEPT ![p] = "create_magazine_commit"]
            /\ req' = [req EXCEPT ![p] = magazine]
            /\ UNCHANGED response
    /\ UNCHANGED <<users, magazines, plans, subscriptions>>

(* create_magazine, from building the Magazine row to the return; the     *)
(* magazines table has no unique index on title, so the commit succeeds   *)
create_magazine_commit(p) ==
    /\ Ready
    /\ pc[p] = "create_magazine_commit"
    /\ LET db_magazine == [id |-> NextId(magazines),
                           title |-> req[p].title,
                           description |-> req[p].description]
       IN /\ magazines' = magazines \cup {db_magazine}
          /\ response' = Reply("create_magazine", req[p], HTTP_200_OK, "",
                               MagazineCreate_from_orm(db_magazine))
    /\ pc' = [pc EXCEPT ![p] = "idle"]
    /\ req' = [req EXCEPT ![p] = NoRequest]
    /\ UNCHANGED <<users, plans, subscriptions>>

create_plan(plan) ==
    /\ Ready
    /\ LET db_magazine == First({m \in magazines : m.id = plan.magazine_id})
           db_plan == [id |-> NextId(plans),
                       magazine_id |-> plan.magazine_id,
                       name |-> plan.name,
                       price |-> plan.price,
                       discount |-> PlanCreate_discount(plan.discount)]
       IN IF db_magazine = None
          THEN /\ response' = Reply("create_plan", plan, HTTP_404_NOT_FOUND,
                                    "Magazine not found", None)
               /\ UNCHANGED plans
          ELSE /\ Cardinality(plans) < MaxPlans
               /\ plans' = plans \cup {db_plan}
               /\ response' = Reply("create_plan", plan, HTTP_200_OK, "",
                                    PlanCreate_from_orm(db_plan))
    /\ UNCHANGED <<users, magazines, subscriptions, pc, req>>

---------------------------------------------------------------------------
(* Subscription lifecycle. *)

RECURSIVE OrderById(_)
(* the rows of a query in primary-key order *)
OrderById(rows) ==
    IF rows = {} THEN <<>>
    ELSE LET r == CHOOSE x \in rows : \A y \in rows : x.id <= y.id
         IN <<r>> \o OrderById(rows \ {r})

(* response_model=List[SubscriptionCreate] *)
SubscriptionCreate_list(rows) ==
    [i \in 1..Len(rows) |-> SubscriptionCreate_from_orm(rows[i])]

create_subscription(subscription) ==
    /\ Ready
    /\ LET db_user == First({u \in users : u.id = subscription.user_id})
           db_plan == First({pl \in plans : pl.id = subscription.plan_id})
           db_subscription == [id |-> NextId(subscriptions),
                               user_id |-> subscription.user_id,
                               plan_id |-> subscription.plan_id,
                               active |-> SubscriptionCreate_active(subscription.active)]
       IN IF db_user = None
          THEN /\ response' = Reply("create_subscription", subscription,
                                    HTTP_404_NOT_FOUND, "User not found", None)
               /\ UNCHANGED subscriptions
          ELSE IF db_plan = None
          THEN /\ response' = Reply("create_subscription", subscription,
                                    HTTP_404_NOT_FOUND, "Plan not found", None)
               /\ UNCHANGED subscriptions
          ELSE /\ db_subscription.id <= MaxSubs
               /\ subscriptions' = subscriptions \cup {db_subscription}
               /\ response' = Reply("create_subscription", subscription, HTTP_200_OK, "",
                                    SubscriptionCreate_from_orm(db_subscription))
    /\ UNCHANGED <<users, magazines, plans, pc, req>>

(* the query filtering on the primary key *)
get_user_subscriptions_query_by_id(user_id) == {s \in subscriptions : s.id = user_id}

get_user_subscriptions_query(user_id) == {s \in subscriptions : s.user_id = user_id}

get_user_subscriptions(user_id) ==
    /\ Ready
    /\ LET found == get_user_subscriptions_query(user_id)
       IN IF found = {}
          THEN response' = Reply("get_user_subscriptions", user_id, HTTP_404_NOT_FOUND,
                                 "No subscriptions found for this user", None)
          ELSE response' = Reply("get_user_subscriptions", user_id, HTTP_200_OK, "",
                                 SubscriptionCreate_list(OrderById(found)))
    /\ UNCHANGED <<users, magazines, plans, subscriptions, pc, req>>

(* an omitted active replaced by the creation default *)
update_subscription_fields_defaulted(db_subscription, subscription) ==
    [db_subscription EXCEPT
        !.plan_id = IF subscription.plan_id # None THEN subscription.plan_id[1] ELSE @,
        !.active = IF subscription.active # None THEN subscription.active[1] ELSE TRUE]

(* if subscription.plan_id is not None: ...; if subscription.active is not None: ... *)
update_subscription_fields(db_subscription, subscription) ==
    [db_subscription EXCEPT
        !.plan_id = IF subscription.plan_id # None THEN subscription.plan_id[1] ELSE @,
        !.active = IF subscription.active # None THEN subscription.active[1] ELSE @]

update_subscription(subscription_id, subscription) ==
    /\ Ready
    /\ LET db_subscription == First({s \in subscriptions : s.id = subscription_id})
           args == [subscription_id |-> subscription_id, body |-> subscription]
       IN IF db_subscription = None
          THEN /\ response' = Reply("update_subscription", args, HTTP_404_NOT_FOUND,
                                    "Subscription not found", None)
               /\ UNCHANGED subscriptions
          ELSE LET updated == update_subscription_fields(db_subscription[1], subscription)
               IN IF Subscription_fk_violation(updated)
                  THEN /\ response' = Reply("update_subscription", args,
                                            HTTP_500_INTERNAL_SERVER_ERROR,
                                            "IntegrityError", None)
                       /\ UNCHANGED subscriptions
                  ELSE
                  /\ subscriptions' =
                        (subscriptions \ {db_subscription[1]}) \cup {updated}
                  /\ response' = Reply("update_subscription", args, HTTP_200_OK, "",
                                       SubscriptionCreate_from_orm(updated))
    /\ UNCHANGED <<users, magazines, plans, pc, req>>

(* placeholder identity: the user whose id is 1, or None *)
get_current_user == First({u \in users : u.id = 1})

(* the ownership check comparing the subscription's own id *)
delete_subscription_forbidden_by_id(db_subscription, current_user) ==
    db_subscription.id # current_user.id

delete_subscription_forbidden(db_subscription, current_user) ==
    db_subscription.user_id # current_user.id

delete_subscription(subscription_id) ==
    /\ Ready
    /\ LET current_user == get_current_user
           db_subscription == First({s \in subscriptions : s.id = subscription_id})
       IN IF db_subscription = None
          THEN /\ response' = Reply("delete_subscription", subscription_id,
                                    HTTP_404_NOT_FOUND, "Subscription not found", None)
               /\ UNCHANGED subscriptions
          ELSE IF current_user = None
          THEN \* current_user.id on None: AttributeError, an unhandled server error
               /\ response' = Reply("delete_subscription", subscription_id,
                                    HTTP_500_INTERNAL_SERVER_ERROR, "AttributeError", None)
               /\ UNCHANGED subscriptions
          ELSE IF delete_subscription_forbidden(db_subscription[1], current_user[1])
          THEN /\ response' = Reply("delete_subscription", subscription_id,
                                    HTTP_403_FORBIDDEN,
                                    "You do not have permission to delete this subscription",
                                    None)
               /\ UNCHANGED subscriptions
          ELSE /\ subscriptions' = subscriptions \ {db_subscription[1]}
               /\ response' = Reply("delete_subscription", subscription_id, HTTP_200_OK, "",
                                    [msg |-> "Subscription deleted successfully"])
    /\ UNCHANGED <<users, magazines, plans, pc, req>>

---------------------------------------------------------------------------
(* Specifications. *)

NextCatalog ==
    \/ \E p \in Procs, magazine \in MagazineCreate : create_magazine_check(p, magazine)
    \/ \E p \in Procs : create_magazine_commit(p)
    \/ \E plan \in PlanCreate : create_plan(plan)
    \/ list_magazines
    \/ get_db_close

SpecCatalog == Init /\ [][NextCatalog]_vars

(* The requests that populate users, magazines and plans when the          *)
(* subscription handlers are explored: one worker, two accounts, one title. *)
SeedProcs == {"w1"}
SeedSalts == {"s1"}
SeedUsers ==
    {[username |-> "alice", email |-> "a@x.io", password |-> "pw1"],
     [username |-> "bob", email |-> "b@x.io", password |-> "pw1"]}
SeedMagazines == {[title |-> "Tech Monthly", description |-> "about"]}

NextSubscriptions ==
    \/ \E p \in SeedProcs, user \in SeedUsers : register_check(p, user)
    \/ \E p \in SeedProcs, salt \in SeedSalts : register_commit(p, salt)
    \/ \E p \in SeedProcs, magazine \in SeedMagazines : create_magazine_check(p, magazine)
    \/ \E p \in SeedProcs : create_magazine_commit(p)
    \/ \E plan \in PlanCreate : create_plan(plan)
    \/ \E subscription \in SubscriptionCreate : create_subscription(subscription)
    \/ \E user_id \in UserIds : get_user_subscriptions(user_id)
    \/ \E subscription_id \in SubIds, subscription \in SubscriptionUpdate :
          update_subscription(subscription_id, subscription)
    \/ \E subscription_id \in SubIds : delete_subscription(subscription_id)
    \/ get_db_close

SpecSubscriptions == Init /\ [][NextSubscriptions]_vars

Next ==
    \/ \E p \in Procs, user \in UserCreate : register_check(p, user)
    \/ \E p \in Procs, salt \in Salts : register_commit(p, salt)
    \/ \E user \in UserLogin : login(user)
    \/ \E reset \in PasswordReset, salt \in Salts : reset_password(reset, salt)
    \/ get_users
    \/ list_magazines
    \/ \E p \in Procs, magazine \in MagazineCreate : create_magazine_check(p, magazine)
    \/ \E p \in Procs : create_magazine_commit(p)
    \/ \E plan \in PlanCreate : create_plan(plan)
    \/ \E subscription \in SubscriptionCreate : create_subscription(subscription)
    \/ \E user_id \in UserIds : get_user_subscriptions(user_id)
    \/ \E subscription_id \in SubIds, subscription \in SubscriptionUpdate :
          update_subscription(subscription_id, subscription)
    \/ \E subscription_id \in SubIds : delete_subscription(subscription_id)
    \/ get_db_close

Spec == Init /\ [][Next]_vars

---------------------------------------------------------------------------
(* Properties of registration and authentication. *)

HasUsername(rows, username) == \E u \in rows : u.username = username
HasEmail(rows, email) == \E u \in rows : u.email = email
Replied(op) == response = NoResponse /\ response' # NoResponse /\ response'.op = op
PreCheckPassed(p, at) == pc[p] = "idle" /\ pc'[p] = at

(* C1: a register whose username and email are both unused stores exactly  *)
(* one new User with them and answers 200 with username and email only; a  *)
(* register that starts when its username is stored never passes the       *)
(* pre-check, answers 400 and leaves the users table as it was.            *)
C1_RegisterThenConflict ==
    [][ /\ \A p \in Procs : PreCheckPassed(p, "register_commit")
              => /\ ~HasUsername(users, req'[p].username)
                 /\ users' = users
        /\ (Replied("register") /\ pc' = pc)
              => /\ HasUsername(users, response'.args.username)
                 /\ response'.status = HTTP_400_BAD_REQUEST
                 /\ response'.body = None
                 /\ users' = users
        /\ (Replied("register") /\ pc' # pc)
              => LET a == response'.args
                 IN IF ~HasUsername(users, a.username) /\ ~HasEmail(users, a.email)
                    THEN /\ response'.status = HTTP_200_OK
                         /\ DOMAIN response'.body = {"username", "email"}
                         /\ response'.body.username = a.username
                         /\ response'.body.email = a.email
                         /\ users \subseteq users'
                         /\ Cardinality(users' \ users) = 1
                         /\ \A n \in users' \ users :
                               n.username = a.username /\ n.email = a.email
                    ELSE /\ response'.status = HTTP_500_INTERNAL_SERVER_ERROR
                         /\ users' = users
      ]_vars

C1_Witness ==
    /\ response # NoResponse
    /\ response.op = "register"
    /\ response.status = HTTP_400_BAD_REQUEST
    /\ HasUsername(users, response.args.username)
    /\ ~HasEmail(users, response.args.email)

(* C2: under every interleaving of register requests no two Users share a  *)
(* username and no two share an email.                                     *)
C2_UsersUnique ==
    \A u, v \in users :
        (u.username = v.username \/ u.email = v.email \/ u.id = v.id) => u = v

(* two requests for one username both passed the pre-check; the second     *)
(* commit was rejected by the unique index                                 *)
C2_Witness ==
    /\ response # NoResponse
    /\ response.op = "register"
    /\ response.status = HTTP_500_INTERNAL_SERVER_ERROR
    /\ HasUsername(users, response.args.username)
    /\ ~HasEmail(users, response.args.email)

LoginFailure(r) == <<r.status, r.detail, r.body>>

(* C3: login answers the one 401 reply both for an unknown username and    *)
(* for a wrong password, issues a bearer token only for a stored user      *)
(* whose password verifies, and never changes the store.                   *)
C3_LoginUniformFailure ==
    [][ Replied("login")
          => LET a == response'.args
                 ok == \E u \in users : /\ u.username = a.username
                                        /\ verify_password(a.password, u.hashed_password)
             IN /\ UNCHANGED <<users, magazines, plans, subscriptions, pc, req>>
                /\ ok => /\ response'.status = HTTP_200_OK
                         /\ response'.body.token_type = "bearer"
                         /\ response'.body.access_token = create_access_token(a.username)
                /\ ~ok => LoginFailure(response') =
                             <<HTTP_401_UNAUTHORIZED, "Incorrect username or password", None>>
      ]_vars

(* a wrong password for a stored user is refused, in a store where another *)
(* username is unknown                                                     *)
C3_Witness ==
    /\ response # NoResponse
    /\ response.op = "login"
    /\ response.status = HTTP_401_UNAUTHORIZED
    /\ HasUsername(users, response.args.username)
    /\ \E n \in Usernames : ~HasUsername(users, n)

Identity(u) == [id |-> u.id, username |-> u.username, email |-> u.email]

(* C8: reset_password answers 404 and changes nothing for an unknown       *)
(* username; otherwise it replaces that user's hash only, after which      *)
(* login accepts new_password and no other password for that user; no      *)
(* other step changes a stored hash.                                       *)
C8_ResetPassword ==
    [][ /\ Replied("reset_password")
          => LET a == response'.args
             IN IF ~HasUsername(users, a.username)
                THEN /\ response'.status = HTTP_404_NOT_FOUND
                     /\ UNCHANGED <<users, magazines, plans, subscriptions, pc, req>>
                ELSE /\ response'.status = HTTP_200_OK
                     /\ {Identity(u) : u \in users'} = {Identity(u) : u \in users}
                     /\ Cardinality(users') = Cardinality(users)
                     /\ \A u \in users : u.username # a.username => u \in users'
                     /\ \A p \in Passwords :
                          (login_reply(users', [username |-> a.username, password |-> p]).status
                              = HTTP_200_OK) <=> (p = a.new_password)
                     /\ UNCHANGED <<magazines, plans, subscriptions, pc, req>>
        /\ \A u \in users :
             u \in users' \/ (Replied("reset_password") /\ response'.args.username = u.username)
      ]_vars

C8_Witness ==
    /\ response # NoResponse
    /\ response.op = "reset_password"
    /\ response.status = HTTP_200_OK
    /\ Cardinality(users) = 2
    /\ \E u \in users : /\ u.username = response.args.username
                        /\ verify_password(response.args.new_password, u.hashed_password)

---------------------------------------------------------------------------
(* Properties of the catalog and of the subscription lifecycle. *)

UserExists(user_id) == \E u \in users : u.id = user_id
PlanExists(plan_id) == \E pl \in plans : pl.id = plan_id

(* C4: create_subscription answers 404 and inserts nothing when the user   *)
(* is missing (checked first) or the plan is missing; otherwise it inserts *)
(* exactly one Subscription with the requested user_id and plan_id, active *)
(* by default and as requested otherwise.                                  *)
C4_CreateSubscription ==
    [][ Replied("create_subscription")
          => LET a == response'.args
                 new == subscriptions' \ subscriptions
             IN /\ UNCHANGED <<users, magazines, plans, pc, req>>
                /\ IF ~UserExists(a.user_id)
                   THEN /\ response'.status = HTTP_404_NOT_FOUND
                        /\ response'.detail = "User not found"
                        /\ subscriptions' = subscriptions
                   ELSE IF ~PlanExists(a.plan_id)
                   THEN /\ response'.status = HTTP_404_NOT_FOUND
                        /\ response'.detail = "Plan not found"
                        /\ subscriptions' = subscriptions
                   ELSE /\ response'.status = HTTP_200_OK
                        /\ subscriptions \subseteq subscriptions'
                        /\ Cardinality(new) = 1
                        /\ \A n \in new :
                              /\ n.user_id = a.user_id
                              /\ n.plan_id = a.plan_id
                              /\ n.active = (IF a.active = None THEN TRUE ELSE a.active[1])
                              /\ \A s \in subscriptions : s.id # n.id
                              /\ response'.body = [user_id |-> n.user_id,
                                                   plan_id |-> n.plan_id,
                                                   active |-> n.active]
      ]_vars

C4_Witness ==
    /\ response # NoResponse
    /\ response.op = "create_subscription"
    /\ response.status = HTTP_200_OK
    /\ response.args.active = None
    /\ response.body.active = TRUE
    /\ Cardinality(subscriptions) = 2

(* C5: update_subscription on a stored Subscription changes plan_id and    *)
(* active only where the request gives a non-null value, never id or       *)
(* user_id, and no other Subscription; on a missing id it answers 404 and  *)
(* changes nothing.                                                        *)
C5_PartialUpdate ==
    [][ Replied("update_subscription")
          => LET sid == response'.args.subscription_id
                 upd == response'.args.body
                 old == {s \in subscriptions : s.id = sid}
                 new == {s \in subscriptions' : s.id = sid}
             IN /\ UNCHANGED <<users, magazines, plans, pc, req>>
                /\ {s \in subscriptions' : s.id # sid} = {s \in subscriptions : s.id # sid}
                /\ IF old = {}
                   THEN /\ response'.status = HTTP_404_NOT_FOUND
                        /\ subscriptions' = subscriptions
                   ELSE /\ response'.status = HTTP_200_OK
                        /\ Cardinality(new) = 1
                        /\ \A o \in old, n \in new :
                              /\ n.user_id = o.user_id
                              /\ n.plan_id = (IF upd.plan_id = None THEN o.plan_id
                                              ELSE upd.plan_id[1])
                              /\ n.active = (IF upd.active = None THEN o.active
                                             ELSE upd.active[1])
      ]_vars

(* PUT {"active": false} on a Subscription of plan 1, another one stored *)
C5_Witness ==
    /\ response # NoResponse
    /\ response.op = "update_subscription"
    /\ response.status = HTTP_200_OK
    /\ response.args.body = [plan_id |-> None, active |-> Some(FALSE)]
    /\ response.body.plan_id = 1
    /\ response.body.active = FALSE
    /\ Cardinality(subscriptions) = 2

(* C6: delete_subscription answers 404 for a missing id, 403 with the      *)
(* store intact when the Subscription's user_id is not the id of the       *)
(* resolved caller (the User with id 1), and otherwise 200 with exactly    *)
(* that Subscription removed; whenever a Subscription is stored the        *)
(* resolved caller exists.                                                 *)
C6_DeleteOutcomes ==
    [][ /\ subscriptions # {} => UserExists(1)
        /\ Replied("delete_subscription")
             => LET sid == response'.args
                    hit == {s \in subscriptions : s.id = sid}
                IN /\ UNCHANGED <<users, magazines, plans, pc, req>>
                   /\ IF hit = {}
                      THEN /\ response'.status = HTTP_404_NOT_FOUND
                           /\ subscriptions' = subscriptions
                      ELSE /\ get_current_user # None
                           /\ Cardinality(hit) = 1
                           /\ \A s \in hit :
                                IF s.user_id # get_current_user[1].id
                                THEN /\ response'.status = HTTP_403_FORBIDDEN
                                     /\ subscriptions' = subscriptions
                                ELSE /\ response'.status = HTTP_200_OK
                                     /\ subscriptions' = subscriptions \ {s}
      ]_vars

(* refused: the Subscription of another user is still stored *)
C6_Witness ==
    /\ response # NoResponse
    /\ response.op = "delete_subscription"
    /\ response.status = HTTP_403_FORBIDDEN
    /\ \E s \in subscriptions : s.id = response.args /\ s.user_id = 2
    /\ UserExists(1)

(* C7: get_user_subscriptions answers 404 exactly when no stored           *)
(* Subscription has the user_id, otherwise returns exactly the             *)
(* Subscriptions of that user_id, and never changes the store.             *)
C7_UserSubscriptions ==
    [][ Replied("get_user_subscriptions")
          => LET mine == {s \in subscriptions : s.user_id = response'.args}
                 body == response'.body
             IN /\ UNCHANGED <<users, magazines, plans, subscriptions, pc, req>>
                /\ (response'.status = HTTP_404_NOT_FOUND) <=> (mine = {})
                /\ mine # {} =>
                     /\ response'.status = HTTP_200_OK
                     /\ Len(body) = Cardinality(mine)
                     /\ \A s \in mine : \E i \in 1..Len(body) :
                           body[i] = [user_id |-> s.user_id, plan_id |-> s.plan_id,
                                      active |-> s.active]
                     /\ \A i \in 1..Len(body) : body[i].user_id = response'.args
      ]_vars

(* 404 for a stored user who has no Subscription while another user has one *)
C7_Witness ==
    /\ response # NoResponse
    /\ response.op = "get_user_subscriptions"
    /\ response.status = HTTP_404_NOT_FOUND
    /\ UserExists(response.args)
    /\ subscriptions # {}

(* C9: no two Magazines have the same title, under every interleaving of   *)
(* create_magazine requests.                                               *)
C9_TitlesUnique ==
    \A m, n \in magazines : m.title = n.title => m = n

(* C10: every stored Subscription refers to a stored User and to a stored  *)
(* Plan.                                                                   *)
C10_ReferentialIntegrity ==
    \A s \in subscriptions : UserExists(s.user_id) /\ PlanExists(s.plan_id)

=============================================================================
